---- MODULE Spec2Model ----
(***************************************************************************)
(* Model of scripts/example-optimized-processing.py: the depth-limited,    *)
(* lazy directory walker find_unformatted_files_generator and the batch    *)
(* runner process_directory_optimized that consumes it; and of             *)
(* scripts/create-subdirectories.py: create_categories_for_year.           *)
(*                                                                         *)
(* File names are sequences of one-character strings, so that the name     *)
(* tests of the walker (startswith, suffix, lower, the date regex) are     *)
(* computed on the characters as the code computes them.                   *)
(***************************************************************************)
EXTENDS Integers, Sequences, FiniteSets, TLC

(***************************************************************************)
(* Bounds of the model.  BATCH_SIZE and MAX_FILES_PER_RUN are 25 and 500   *)
(* in the script; the model draws them from 1..MaxBatch and 1..MaxCap so   *)
(* that full batches, tail batches and capped runs all occur on trees of   *)
(* a handful of files.                                                     *)
(***************************************************************************)
MaxBatch == 3
MaxCap == 4

\* max_depth=3, the default of find_unformatted_files_generator
DefaultMaxDepth == 3

VARIABLES
    fs,                 \* the directory tree: node -> attributes
    rootExists,         \* archive_path.exists()
    max_depth,          \* the walker's max_depth argument
    BATCH_SIZE,         \* configuration
    MAX_FILES_PER_RUN,  \* configuration
    gen,                \* the suspended generator: stack of frames
    genState,           \* "running", "exhausted" or "raised"
    stats,              \* [success, errors]
    batch,              \* the batch list
    batch_count,
    idx,                \* position of the flush loop in the batch
    pc,                 \* position of the run
    pulled,             \* history: candidates delivered by the generator
    calls,              \* history: process_file calls, with their result
    flushes,            \* history: batch flushes [kind, size]
    progress,           \* history: progress lines [batch, success, errors]
    pauses,             \* history: number of inter-batch sleeps
    capped,             \* history: the safety-limit break was taken
    op,                 \* what process_file does with each file
    first,              \* history: the result of the run before this one
    year_exists,        \* create-subdirectories: year_path.exists()
    category_dirs,      \* the category directories that exist in the year
    dry_run,            \* the dry_run argument
    category_i,         \* position of "for category in CATEGORIES"
    year_stats,         \* [created, existing, skipped]
    cat_pc,             \* position of create_categories_for_year
    dirs_before,        \* history: category_dirs when the call started
    returned,           \* history: the calls that returned
    mkdir_failures      \* history: number of mkdir calls that raised

\* the second run of the batch runner
rerunVars == <<op, first>>

\* create-subdirectories.py
catVars == <<year_exists, category_dirs, dry_run, category_i, year_stats,
             cat_pc, dirs_before, returned, mkdir_failures>>

\* example-optimized-processing.py
runVars == <<fs, rootExists, max_depth, BATCH_SIZE, MAX_FILES_PER_RUN, gen,
             genState, stats, batch, batch_count, idx, pc, pulled, calls,
             flushes, progress, pauses, capped>>

vars == <<runVars, rerunVars, catVars>>

----------------------------------------------------------------------------
(* Strings *)

Digits == {"0", "1", "2", "3", "4", "5", "6", "7", "8", "9"}

UpperAlpha == <<"A", "B", "C", "D", "E", "F", "G", "H", "I", "J", "K", "L", "M",
                "N", "O", "P", "Q", "R", "S", "T", "U", "V", "W", "X", "Y", "Z">>

LowerAlpha == <<"a", "b", "c", "d", "e", "f", "g", "h", "i", "j", "k", "l", "m",
                "n", "o", "p", "q", "r", "s", "t", "u", "v", "w", "x", "y", "z">>

\* str.lower() on one character
LowerChar(c) ==
    IF \E i \in 1..26 : UpperAlpha[i] = c
    THEN LowerAlpha[CHOOSE i \in 1..26 : UpperAlpha[i] = c]
    ELSE c

\* str.lower()
Lower(s) == [i \in 1..Len(s) |-> LowerChar(s[i])]

\* item.name.startswith('.')
StartsWithDot(name) == Len(name) >= 1 /\ name[1] = "."

\* str.rfind('.'), 1-based; 0 when there is no dot
RFindDot(name) ==
    IF \E i \in 1..Len(name) : name[i] = "."
    THEN CHOOSE i \in 1..Len(name) :
            name[i] = "." /\ \A j \in (i + 1)..Len(name) : name[j] # "."
    ELSE 0

\* PurePath.suffix: the last dot and what follows it, unless that dot is the
\* first or the last character of the name
Suffix(name) ==
    LET j == RFindDot(name)
    IN  IF 1 < j /\ j < Len(name) THEN SubSeq(name, j, Len(name)) ELSE <<>>

FILE_EXTENSIONS ==
    { <<".", "p", "d", "f">>, <<".", "t", "x", "t">>, <<".", "d", "o", "c">>,
      <<".", "d", "o", "c", "x">>, <<".", "x", "l", "s">>,
      <<".", "x", "l", "s", "x">>, <<".", "p", "p", "t">>,
      <<".", "p", "p", "t", "x">> }

\* item.suffix.lower() in FILE_EXTENSIONS
ExtensionAllowed(name) == Lower(Suffix(name)) \in FILE_EXTENSIONS

\* FORMATTED_PATTERN.match(name): ^\d{4}-\d{2}-\d{2}_
FORMATTED_PATTERN(name) ==
    /\ Len(name) >= 11
    /\ \A i \in {1, 2, 3, 4, 6, 7, 9, 10} : name[i] \in Digits
    /\ name[5] = "-"
    /\ name[8] = "-"
    /\ name[11] = "_"

----------------------------------------------------------------------------
(* The directory tree.                                                     *)
(*                                                                         *)
(*   root/  f0  A/  g0          A/  f1  B/         B/  f2  C/              *)
(*   C/  f3  D/                 D/  f4                                     *)
(*                                                                         *)
(* A node carries its name, its kind ("dir", "file", or "other" for an     *)
(* entry that is neither a directory nor a regular file), the listing      *)
(* iterdir() delivers for it, and the errors its enumeration raises:       *)
(* failAt = k means iterdir() raises failExc once k entries have been      *)
(* delivered (k = 0: the listing cannot be opened), statExc # "" means     *)
(* is_dir() on the entry raises statExc.  shape records how the name was   *)
(* built; the walker never reads it.                                       *)

Dirs == {"root", "A", "B", "C", "D"}
Files == {"f0", "f1", "f2", "f3", "f4", "g0"}
Nodes == Dirs \cup Files

None == "none"

Stem(n) ==
    CASE n = "root" -> "r" [] n = "A" -> "s" [] n = "B" -> "t"
      [] n = "C" -> "u" [] n = "D" -> "v" [] n = "f0" -> "a"
      [] n = "f1" -> "b" [] n = "f2" -> "c" [] n = "f3" -> "d"
      [] n = "f4" -> "e" [] n = "g0" -> "g"

SkeletonParent(n) ==
    CASE n \in {"f0", "A", "g0"} -> "root"
      [] n \in {"f1", "B"} -> "A"
      [] n \in {"f2", "C"} -> "B"
      [] n \in {"f3", "D"} -> "C"
      [] n = "f4" -> "D"
      [] OTHER -> None

SkeletonEntries(d) ==
    CASE d = "root" -> <<"f0", "A", "g0">>
      [] d = "A" -> <<"f1", "B">>
      [] d = "B" -> <<"f2", "C">>
      [] d = "C" -> <<"f3", "D">>
      [] d = "D" -> <<"f4">>
      [] OTHER -> <<>>

DatePrefix == <<"2", "0", "2", "4", "-", "0", "1", "-", "0", "2", "_">>
NearDatePrefix == <<"2", "0", "2", "4", "-", "1", "-", "0", "2", "_">>
FakeDatePrefix == <<"2", "0", "2", "4", "-", "0", "1", "-", "0", "x", "_">>

FileShapes ==
    {"plain", "hidden", "upper", "formatted", "neardate", "fakedate", "otherext", "special"}
DirShapes == {"plain", "hidden", "dotted"}

\* the name of a node of the given shape
NameOf(n, shape) ==
    CASE shape = "plain" /\ n \in Dirs -> <<Stem(n)>>
      [] shape = "plain" /\ n \in Files -> <<Stem(n), ".", "p", "d", "f">>
      [] shape = "hidden" /\ n \in Dirs -> <<".", Stem(n)>>
      [] shape = "hidden" /\ n \in Files -> <<".", Stem(n), ".", "p", "d", "f">>
      [] shape = "dotted" -> <<Stem(n), ".", "p", "d", "f">>
      [] shape = "upper" -> <<Stem(n), ".", "P", "D", "F">>
      [] shape = "formatted" -> DatePrefix \o <<Stem(n), ".", "p", "d", "f">>
      [] shape = "neardate" -> NearDatePrefix \o <<Stem(n), ".", "p", "d", "f">>
      [] shape = "fakedate" -> FakeDatePrefix \o <<Stem(n), ".", "p", "d", "f">>
      [] shape = "otherext" -> <<Stem(n), ".", "m", "d">>
      [] shape = "special" -> <<Stem(n), ".", "p", "d", "f">>

BaseNode(n) ==
    [ name    |-> NameOf(n, "plain"),
      kind    |-> IF n \in Dirs THEN "dir" ELSE "file",
      entries |-> SkeletonEntries(n),
      failAt  |-> -1,
      failExc |-> "",
      statExc |-> "",
      shape   |-> "plain" ]

BaseTree == [n \in Nodes |-> BaseNode(n)]

Reverse(s) == [i \in 1..Len(s) |-> s[Len(s) + 1 - i]]

NoVariation == [node |-> "root", what |-> "nothing", shape |-> "", at |-> 0]

ShapeVariations ==
    { [node |-> n, what |-> "shape", shape |-> sh, at |-> 0] :
        n \in {"f0", "f1", "f2", "f3", "g0"}, sh \in FileShapes \ {"plain"} }
    \cup
    { [node |-> n, what |-> "shape", shape |-> sh, at |-> 0] :
        n \in {"A", "C"}, sh \in DirShapes \ {"plain"} }

ErrorVariations ==
    UNION { { [node |-> d, what |-> "iterfail", shape |-> "", at |-> k] :
                k \in 0..(Len(SkeletonEntries(d)) - 1) } : d \in Dirs }
    \cup
    { [node |-> n, what |-> "statfail", shape |-> "", at |-> 0] :
        n \in {"A", "C", "f1", "f2", "g0"} }

OrderVariations ==
    { [node |-> d, what |-> "reverse", shape |-> "", at |-> 0] : d \in {"root", "B"} }

\* a file that does not exist: its directory does not list it
AbsentVariations ==
    { [node |-> n, what |-> "absent", shape |-> "absent", at |-> 0] : n \in {"f0", "g0"} }

Variations ==
    ShapeVariations \cup ErrorVariations \cup OrderVariations \cup AbsentVariations

Without(s, n) == SelectSeq(s, LAMBDA e : e # n)

\* the tree t with the variation v made
Apply(t, v) ==
    CASE v.what = "shape" ->
            [t EXCEPT ![v.node] =
                [@ EXCEPT !.name = NameOf(v.node, v.shape),
                          !.shape = v.shape,
                          !.kind = IF v.shape = "special" THEN "other"
                                   ELSE IF v.node \in Dirs THEN "dir" ELSE "file"]]
      [] v.what = "iterfail" ->
            [t EXCEPT ![v.node] =
                [@ EXCEPT !.failAt = v.at,
                          !.failExc = IF v.at = 0 THEN "PermissionError" ELSE "OSError"]]
      [] v.what = "statfail" ->
            [t EXCEPT ![v.node] = [@ EXCEPT !.statExc = "PermissionError"]]
      [] v.what = "reverse" ->
            [t EXCEPT ![v.node] = [@ EXCEPT !.entries = Reverse(@)]]
      [] v.what = "absent" ->
            [t EXCEPT ![v.node] = [@ EXCEPT !.shape = "absent"],
                      ![SkeletonParent(v.node)] =
                          [@ EXCEPT !.entries = Without(@, v.node)]]
      [] OTHER -> t

\* the trees of the batch-runner specification: at most one variation
RunnerTrees == {Apply(BaseTree, v) : v \in Variations \cup {NoVariation}}

\* the trees of the traversal specification: at most two variations
TraversalTrees ==
    {Apply(Apply(BaseTree, v), w) : v \in Variations \cup {NoVariation},
                                    w \in Variations \cup {NoVariation}}

----------------------------------------------------------------------------
(* find_unformatted_files_generator, as a suspended computation.           *)
(*                                                                         *)
(* A frame [dir, i, depth] is one activation of the generator, i being     *)
(* the number of entries its iterdir() loop has taken.  gen is the stack   *)
(* of activations, the innermost last; a pull resumes the innermost one    *)
(* and runs until the next yield, or until the stack is empty.             *)

Frame(d, depth) == [dir |-> d, i |-> 0, depth |-> depth]

Pop(stack) == SubSeq(stack, 1, Len(stack) - 1)

Advance(stack) ==
    [stack EXCEPT ![Len(stack)] = [@ EXCEPT !.i = @ + 1]]

\* the exceptions that are instances of Exception
ExceptionClasses == {"PermissionError", "OSError"}

\* variant: only the first except clause
CaughtPermissionOnly(exc) == exc = "PermissionError"

\* except PermissionError: pass / except Exception: pass
Caught(exc) == exc = "PermissionError" \/ exc \in ExceptionClasses

\* variant: the depth test with >= for >
TooDeepOffByOne(depth, maxDepth) == depth >= maxDepth

\* if current_depth > max_depth: return
TooDeep(depth, maxDepth) == depth > maxDepth

\* what the body of the loop does with one entry:
\* "skip", "raise", "descend", "yield"
Inspect(t, e) ==
    IF StartsWithDot(t[e].name) THEN "skip"
    ELSE IF t[e].statExc # "" THEN "raise"
    ELSE IF t[e].kind = "dir" THEN "descend"
    ELSE IF t[e].kind = "file" /\ ExtensionAllowed(t[e].name)
         THEN IF ~FORMATTED_PATTERN(t[e].name) THEN "yield" ELSE "skip"
    ELSE "skip"

\* an exception exc raised in the innermost activation
Raise(stack, exc) ==
    IF Caught(exc)
    THEN [stack |-> Pop(stack), exc |-> ""]
    ELSE [stack |-> <<>>, exc |-> exc]

RECURSIVE Resume(_, _, _)
\* next(generator): [stack, item, exc]; item = None when the generator is
\* exhausted, exc # "" when an exception leaves the generator
Resume(t, maxDepth, stack) ==
    IF stack = <<>> THEN [stack |-> <<>>, item |-> None, exc |-> ""]
    ELSE
      LET top == stack[Len(stack)]
          d == top.dir
      IN  IF top.i = 0 /\ TooDeep(top.depth, maxDepth)
          THEN Resume(t, maxDepth, Pop(stack))
          ELSE IF t[d].failAt = top.i
          THEN LET r == Raise(stack, t[d].failExc)
               IN  IF r.exc # ""
                   THEN [stack |-> <<>>, item |-> None, exc |-> r.exc]
                   ELSE Resume(t, maxDepth, r.stack)
          ELSE IF top.i >= Len(t[d].entries)
          THEN Resume(t, maxDepth, Pop(stack))
          ELSE
            LET e == t[d].entries[top.i + 1]
                what == Inspect(t, e)
                next == Advance(stack)
            IN  CASE what = "skip" -> Resume(t, maxDepth, next)
                  [] what = "raise" ->
                        LET r == Raise(next, t[e].statExc)
                        IN  IF r.exc # ""
                            THEN [stack |-> <<>>, item |-> None, exc |-> r.exc]
                            ELSE Resume(t, maxDepth, r.stack)
                  [] what = "descend" ->
                        Resume(t, maxDepth, Append(next, Frame(e, top.depth + 1)))
                  [] what = "yield" -> [stack |-> next, item |-> e, exc |-> ""]

----------------------------------------------------------------------------
(* process_directory_optimized and main *)

\* variant: the length test with > for >=
BatchFullStrict(b, size) == Len(b) > size

\* if len(batch) >= BATCH_SIZE
BatchFull(b, size) == Len(b) >= size

\* variant: the safety limit with > for >=
CapReachedStrict(success, cap) == success > cap

\* variant: the safety limit one success early
CapReachedEarly(success, cap) == success >= cap - 1

\* if stats['success'] >= MAX_FILES_PER_RUN
CapReached(success, cap) == success >= cap

\* variant: the else branch missing
CountSuccessOnly(st, ok) == IF ok THEN [st EXCEPT !.success = @ + 1] ELSE st

\* if process_file(f): stats['success'] += 1  else: stats['errors'] += 1
Count(st, ok) ==
    IF ok THEN [st EXCEPT !.success = @ + 1] ELSE [st EXCEPT !.errors = @ + 1]

\* variant: the progress line printed before batch_count += 1
ProgressLineZeroBased(count, st) ==
    [batch |-> count - 1, success |-> st.success, errors |-> st.errors]

\* the line print(f"Batch {batch_count}: {success} processed, {errors} errors")
ProgressLine(count, st) ==
    [batch |-> count, success |-> st.success, errors |-> st.errors]

Running == {"pull", "flush", "clear", "pause", "capcheck", "tail", "tailflush", "final"}

InitRun ==
    /\ rootExists \in BOOLEAN
    /\ gen = <<>>
    /\ genState = "unstarted"
    /\ stats = [success |-> 0, errors |-> 0]
    /\ batch = <<>>
    /\ batch_count = 0
    /\ idx = 1
    /\ pc = "main"
    /\ pulled = <<>>
    /\ calls = <<>>
    /\ flushes = <<>>
    /\ progress = <<>>
    /\ pauses = 0
    /\ capped = FALSE

\* process_file is a template ("HIER DEINE VERARBEITUNG"): what it returns
\* for a file is left open, call by call
AnyResult == [f \in Files |-> "any"]

\* one run of the script, with process_file left open
SingleRun ==
    /\ op = AnyResult
    /\ first = <<>>

\* create-subdirectories.py is not run
CategoriesUnused ==
    /\ year_exists = FALSE
    /\ category_dirs = {}
    /\ dry_run = FALSE
    /\ category_i = 1
    /\ year_stats = [created |-> 0, existing |-> 0, skipped |-> 0]
    /\ cat_pc = "unused"
    /\ dirs_before = {}
    /\ returned = <<>>
    /\ mkdir_failures = 0

\* the batch-runner specification: the walker is called with its default depth
Init ==
    /\ fs \in RunnerTrees
    /\ max_depth = DefaultMaxDepth
    /\ BATCH_SIZE \in 1..MaxBatch
    /\ MAX_FILES_PER_RUN \in 1..MaxCap
    /\ InitRun
    /\ SingleRun
    /\ CategoriesUnused

\* variant: main without the test of archive_path.exists()
MainUnchecked ==
    /\ pc = "main"
    /\ pc' = "pull"
    /\ gen' = <<Frame("root", 0)>>
    /\ genState' = "running"
    /\ stats' = [success |-> 0, errors |-> 0]
    /\ batch' = <<>>
    /\ batch_count' = 0
    /\ UNCHANGED <<rerunVars, catVars, fs, rootExists, max_depth, BATCH_SIZE,
                   MAX_FILES_PER_RUN, idx,
                   pulled, calls, flushes, progress, pauses, capped>>

\* main up to the call of process_directory_optimized, and that function's
\* first lines; the generator object is created, its body has not started
Main ==
    /\ pc = "main"
    /\ IF ~rootExists
       THEN /\ pc' = "refused"
            /\ UNCHANGED <<gen, genState, stats, batch, batch_count>>
       ELSE /\ pc' = "pull"
            /\ gen' = <<Frame("root", 0)>>
            /\ genState' = "running"
            /\ stats' = [success |-> 0, errors |-> 0]
            /\ batch' = <<>>
            /\ batch_count' = 0
    /\ UNCHANGED <<rerunVars, catVars, fs, rootExists, max_depth, BATCH_SIZE,
                   MAX_FILES_PER_RUN, idx,
                   pulled, calls, flushes, progress, pauses, capped>>

\* one turn of "for file_path in find_unformatted_files_generator(dir_path)":
\* next() on the generator, batch.append, and the test of the batch length
Pull ==
    /\ pc = "pull"
    /\ LET r == Resume(fs, max_depth, gen)
       IN  IF r.exc # ""
           THEN /\ pc' = "crashed"
                /\ genState' = "raised"
                /\ gen' = <<>>
                /\ UNCHANGED <<batch, pulled, idx>>
           ELSE IF r.item = None
           THEN /\ pc' = "tail"
                /\ genState' = "exhausted"
                /\ gen' = <<>>
                /\ UNCHANGED <<batch, pulled, idx>>
           ELSE /\ gen' = r.stack
                /\ pulled' = Append(pulled, r.item)
                /\ batch' = Append(batch, r.item)
                /\ IF BatchFull(batch', BATCH_SIZE)
                   THEN pc' = "flush" /\ idx' = 1
                   ELSE pc' = "pull" /\ idx' = idx
                /\ UNCHANGED genState
    /\ UNCHANGED <<rerunVars, catVars, fs, rootExists, max_depth, BATCH_SIZE,
                   MAX_FILES_PER_RUN, stats,
                   batch_count, calls, flushes, progress, pauses, capped>>

\* process_file(f) and the counting of its result; ok = FALSE is the branch
\* in which the body of process_file raises and the function returns False
ProcessItem(ok) ==
    /\ idx <= Len(batch)
    /\ op[batch[idx]] \in {"any", IF ok THEN "ok" ELSE "fail"}
    /\ stats' = Count(stats, ok)
    /\ calls' = Append(calls, [file |-> batch[idx], ok |-> ok])
    /\ idx' = idx + 1
    /\ UNCHANGED <<rerunVars, catVars, fs, rootExists, max_depth, BATCH_SIZE,
                   MAX_FILES_PER_RUN, gen,
                   genState, batch, batch_count, pc, pulled, flushes, progress,
                   pauses, capped>>

\* one turn of "for f in batch" of a full batch
FlushItem == pc = "flush" /\ \E ok \in BOOLEAN : ProcessItem(ok)

\* batch_count += 1 and the progress line
Report ==
    /\ pc = "flush"
    /\ idx > Len(batch)
    /\ batch_count' = batch_count + 1
    /\ progress' = Append(progress, ProgressLine(batch_count', stats))
    /\ flushes' = Append(flushes, [kind |-> "full", size |-> Len(batch)])
    /\ pc' = "clear"
    /\ UNCHANGED <<rerunVars, catVars, fs, rootExists, max_depth, BATCH_SIZE,
                   MAX_FILES_PER_RUN, gen,
                   genState, stats, batch, idx, pulled, calls, pauses, capped>>

\* variant: the full batch is not cleared after its flush
ClearSkipped ==
    /\ pc = "clear"
    /\ pc' = "pause"
    /\ UNCHANGED <<rerunVars, catVars, fs, rootExists, max_depth, BATCH_SIZE,
                   MAX_FILES_PER_RUN, gen,
                   genState, stats, batch, batch_count, idx, pulled, calls,
                   flushes, progress, pauses, capped>>

\* batch.clear(); gc.collect()
Clear ==
    /\ pc = "clear"
    /\ batch' = <<>>
    /\ pc' = "pause"
    /\ UNCHANGED <<rerunVars, catVars, fs, rootExists, max_depth, BATCH_SIZE,
                   MAX_FILES_PER_RUN, gen,
                   genState, stats, batch_count, idx, pulled, calls, flushes,
                   progress, pauses, capped>>

\* time.sleep(PAUSE_BETWEEN_BATCHES)
Pause ==
    /\ pc = "pause"
    /\ pauses' = pauses + 1
    /\ pc' = "capcheck"
    /\ UNCHANGED <<rerunVars, catVars, fs, rootExists, max_depth, BATCH_SIZE,
                   MAX_FILES_PER_RUN, gen,
                   genState, stats, batch, batch_count, idx, pulled, calls,
                   flushes, progress, capped>>

\* variant: the safety limit without its break
CapCheckIgnored ==
    /\ pc = "capcheck"
    /\ pc' = "pull"
    /\ UNCHANGED <<rerunVars, catVars, fs, rootExists, max_depth, BATCH_SIZE,
                   MAX_FILES_PER_RUN, gen,
                   genState, stats, batch, batch_count, idx, pulled, calls,
                   flushes, progress, pauses, capped>>

\* variant: the safety limit on success + errors
CapCheckCountsErrors ==
    /\ pc = "capcheck"
    /\ IF CapReached(stats.success + stats.errors, MAX_FILES_PER_RUN)
       THEN capped' = TRUE /\ pc' = "tail"
       ELSE capped' = capped /\ pc' = "pull"
    /\ UNCHANGED <<rerunVars, catVars, fs, rootExists, max_depth, BATCH_SIZE,
                   MAX_FILES_PER_RUN, gen,
                   genState, stats, batch, batch_count, idx, pulled, calls,
                   flushes, progress, pauses>>

\* the safety limit: break, which abandons the generator, or the next turn
CapCheck ==
    /\ pc = "capcheck"
    /\ IF CapReached(stats.success, MAX_FILES_PER_RUN)
       THEN capped' = TRUE /\ pc' = "tail"
       ELSE capped' = capped /\ pc' = "pull"
    /\ UNCHANGED <<rerunVars, catVars, fs, rootExists, max_depth, BATCH_SIZE,
                   MAX_FILES_PER_RUN, gen,
                   genState, stats, batch, batch_count, idx, pulled, calls,
                   flushes, progress, pauses>>

\* variant: the remaining files are not processed
RemainingSkipped ==
    /\ pc = "tail"
    /\ pc' = "final"
    /\ UNCHANGED <<rerunVars, catVars, fs, rootExists, max_depth, BATCH_SIZE,
                   MAX_FILES_PER_RUN, gen,
                   genState, stats, batch, batch_count, idx, pulled, calls,
                   flushes, progress, pauses, capped>>

\* if batch:
Remaining ==
    /\ pc = "tail"
    /\ IF batch # <<>>
       THEN pc' = "tailflush" /\ idx' = 1
       ELSE pc' = "final" /\ idx' = idx
    /\ UNCHANGED <<rerunVars, catVars, fs, rootExists, max_depth, BATCH_SIZE,
                   MAX_FILES_PER_RUN, gen,
                   genState, stats, batch, batch_count, pulled, calls, flushes,
                   progress, pauses, capped>>

\* variant: the remaining files are processed only while the limit is not
\* reached
TailItemUnderLimit ==
    /\ pc = "tailflush"
    /\ IF stats.success >= MAX_FILES_PER_RUN
       THEN /\ idx <= Len(batch)
            /\ idx' = idx + 1
            /\ UNCHANGED <<rerunVars, catVars, fs, rootExists, max_depth, BATCH_SIZE,
                           MAX_FILES_PER_RUN, gen, genState, stats, batch,
                           batch_count, pc, pulled, calls, flushes, progress,
                           pauses, capped>>
       ELSE \E ok \in BOOLEAN : ProcessItem(ok)

\* one turn of "for f in batch" of the remaining files
TailItem == pc = "tailflush" /\ \E ok \in BOOLEAN : ProcessItem(ok)

\* variant: a pause after the remaining files as well
TailClearThenPause ==
    /\ pc = "tailflush"
    /\ idx > Len(batch)
    /\ flushes' = Append(flushes, [kind |-> "tail", size |-> Len(batch)])
    /\ batch' = <<>>
    /\ pauses' = pauses + 1
    /\ pc' = "final"
    /\ UNCHANGED <<rerunVars, catVars, fs, rootExists, max_depth, BATCH_SIZE,
                   MAX_FILES_PER_RUN, gen,
                   genState, stats, batch_count, idx, pulled, calls, progress,
                   capped>>

\* batch.clear() after the remaining files
TailClear ==
    /\ pc = "tailflush"
    /\ idx > Len(batch)
    /\ flushes' = Append(flushes, [kind |-> "tail", size |-> Len(batch)])
    /\ batch' = <<>>
    /\ pc' = "final"
    /\ UNCHANGED <<rerunVars, catVars, fs, rootExists, max_depth, BATCH_SIZE,
                   MAX_FILES_PER_RUN, gen,
                   genState, stats, batch_count, idx, pulled, calls, progress,
                   pauses, capped>>

\* gc.collect(); return stats
Final ==
    /\ pc = "final"
    /\ pc' = "done"
    /\ UNCHANGED <<rerunVars, catVars, fs, rootExists, max_depth, BATCH_SIZE,
                   MAX_FILES_PER_RUN, gen,
                   genState, stats, batch, batch_count, idx, pulled, calls,
                   flushes, progress, pauses, capped>>

\* KeyboardInterrupt: no handler of the script catches it (the handlers
\* catch Exception), so it ends the run wherever it arrives
Interrupt ==
    /\ pc \in Running
    /\ pc' = "interrupted"
    /\ UNCHANGED <<rerunVars, catVars, fs, rootExists, max_depth, BATCH_SIZE,
                   MAX_FILES_PER_RUN, gen,
                   genState, stats, batch, batch_count, idx, pulled, calls,
                   flushes, progress, pauses, capped>>

Next ==
    \/ Main
    \/ Pull
    \/ FlushItem
    \/ Report
    \/ Clear
    \/ Pause
    \/ CapCheck
    \/ Remaining
    \/ TailItem
    \/ TailClear
    \/ Final
    \/ Interrupt

Spec == Init /\ [][Next]_vars

\* the steps of the script itself after the pull: every disjunct of Next but
\* Pull and the interrupt
StepAfterPull ==
    \/ Main
    \/ FlushItem
    \/ Report
    \/ Clear
    \/ Pause
    \/ CapCheck
    \/ Remaining
    \/ TailItem
    \/ TailClear
    \/ Final

\* weak fairness of Pull, with ENABLED <<Pull>>_vars written out: Pull has a
\* branch for every outcome of Resume and each branch changes pc, gen or
\* pulled, so Pull is enabled exactly when pc = "pull"
PullFair == []<>(pc # "pull") \/ []<><<Pull>>_vars

\* the script is one sequential thread whose calls (process_file, sleep,
\* gc.collect, the directory listing) all return: a step that can be taken
\* is taken
SpecFair == Init /\ [][Next]_vars /\ WF_vars(StepAfterPull) /\ PullFair

\* the listings of the same tree that a later run may be given: the entries
\* of some directories come in the opposite order
RelistedDirs == {"root", "A", "B"}

Relistings(t) ==
    { [n \in DOMAIN t |->
          IF n \in D THEN [t[n] EXCEPT !.entries = Reverse(@)] ELSE t[n]] :
      D \in SUBSET RelistedDirs }

\* the script is run a second time on the same tree with the same
\* configuration and the same process_file
Rerun ==
    /\ pc = "done"
    /\ first = <<>>
    /\ first' = <<[stats |-> stats, capped |-> capped, fs |-> fs]>>
    /\ fs' \in Relistings(fs)
    /\ gen' = <<>>
    /\ genState' = "unstarted"
    /\ stats' = [success |-> 0, errors |-> 0]
    /\ batch' = <<>>
    /\ batch_count' = 0
    /\ idx' = 1
    /\ pc' = "main"
    /\ pulled' = <<>>
    /\ calls' = <<>>
    /\ flushes' = <<>>
    /\ progress' = <<>>
    /\ pauses' = 0
    /\ capped' = FALSE
    /\ UNCHANGED <<catVars, op, rootExists, max_depth, BATCH_SIZE,
                   MAX_FILES_PER_RUN>>

\* a process_file whose result is a fixed function of the file: it fails on
\* no file or on one
FixedResults ==
    { [f \in Files |-> IF f \in F THEN "fail" ELSE "ok"] :
      F \in {{}} \cup {{f} : f \in Files} }

\* the trees of the two-run specification: the skeleton and its variations
\* of absence and of error
RerunTrees ==
    {Apply(BaseTree, v) :
        v \in AbsentVariations \cup ErrorVariations \cup {NoVariation}}

InitRerun ==
    /\ fs \in RerunTrees
    /\ max_depth = DefaultMaxDepth
    /\ BATCH_SIZE \in 1..MaxBatch
    /\ MAX_FILES_PER_RUN \in 1..MaxCap
    /\ InitRun
    /\ op \in FixedResults
    /\ first = <<>>
    /\ CategoriesUnused

NextRerun ==
    \/ Main
    \/ Pull
    \/ FlushItem
    \/ Report
    \/ Clear
    \/ Pause
    \/ CapCheck
    \/ Remaining
    \/ TailItem
    \/ TailClear
    \/ Final
    \/ Interrupt
    \/ Rerun

SpecRerun == InitRerun /\ [][NextRerun]_vars

\* the traversal specification: the walker on trees with up to two
\* variations and every depth limit up to the default
TraversalBatch == 2

InitTraversal ==
    /\ fs \in TraversalTrees
    /\ max_depth \in 0..DefaultMaxDepth
    /\ BATCH_SIZE = TraversalBatch
    /\ MAX_FILES_PER_RUN = MaxCap
    /\ InitRun
    /\ SingleRun
    /\ CategoriesUnused

SpecTraversal == InitTraversal /\ [][Next]_vars

----------------------------------------------------------------------------
(* scripts/create-subdirectories.py: create_categories_for_year *)

CATEGORIES ==
    << "01_Finanzen", "02_Vertraege", "03_Gesundheit", "04_Versicherungen",
       "05_Steuern", "06_Reisen", "07_Beruf", "08_Bildung", "09_Auto",
       "10_Wohnen", "99_Sonstiges" >>

Categories == {CATEGORIES[i] : i \in 1..Len(CATEGORIES)}

\* mkdir raises at most this many times in the calls of one behaviour
MaxMkdirFailures == 1

NoStats == [created |-> 0, existing |-> 0, skipped |-> 0]

\* what a call leaves behind: its arguments, the statistics it returned and
\* the category directories before and after it
Returned(st) ==
    [dry_run |-> dry_run, year_exists |-> year_exists, stats |-> st,
     before |-> dirs_before, after |-> category_dirs]

\* the category directories a year has when the script starts: any of them
InitialCategoryDirs == SUBSET Categories

\* example-optimized-processing.py is not run
RunnerUnused ==
    /\ fs = BaseTree
    /\ rootExists = FALSE
    /\ max_depth = DefaultMaxDepth
    /\ BATCH_SIZE = 1
    /\ MAX_FILES_PER_RUN = 1
    /\ gen = <<>>
    /\ genState = "unstarted"
    /\ stats = [success |-> 0, errors |-> 0]
    /\ batch = <<>>
    /\ batch_count = 0
    /\ idx = 1
    /\ pc = "unused"
    /\ pulled = <<>>
    /\ calls = <<>>
    /\ flushes = <<>>
    /\ progress = <<>>
    /\ pauses = 0
    /\ capped = FALSE
    /\ SingleRun

InitCategories ==
    /\ year_exists \in BOOLEAN
    /\ category_dirs \in IF year_exists THEN InitialCategoryDirs ELSE {{}}
    /\ dry_run \in BOOLEAN
    /\ category_i = 1
    /\ year_stats = NoStats
    /\ cat_pc = "call"
    /\ dirs_before = category_dirs
    /\ returned = <<>>
    /\ mkdir_failures = 0
    /\ RunnerUnused

\* the call, up to the loop: a year directory that does not exist is
\* reported and the call returns zeros
CreateCategoriesForYear ==
    /\ cat_pc = "call"
    /\ dirs_before' = category_dirs
    /\ year_stats' = NoStats
    /\ category_i' = 1
    /\ IF ~year_exists
       THEN /\ cat_pc' = "returned"
            /\ returned' = Append(returned,
                                  [Returned(NoStats) EXCEPT !.before = category_dirs])
       ELSE /\ cat_pc' = "loop"
            /\ returned' = returned
    /\ UNCHANGED <<runVars, rerunVars, year_exists, category_dirs, dry_run,
                   mkdir_failures>>

\* variant: a category that exists is not counted
CategoryExistsUncounted ==
    /\ cat_pc = "loop"
    /\ category_i <= Len(CATEGORIES)
    /\ CATEGORIES[category_i] \in category_dirs
    /\ category_i' = category_i + 1
    /\ UNCHANGED <<runVars, rerunVars, year_exists, category_dirs, dry_run,
                   year_stats, cat_pc, dirs_before, returned, mkdir_failures>>

\* category_path.exists(): counted as existing
CategoryExists ==
    /\ cat_pc = "loop"
    /\ category_i <= Len(CATEGORIES)
    /\ CATEGORIES[category_i] \in category_dirs
    /\ year_stats' = [year_stats EXCEPT !.existing = @ + 1]
    /\ category_i' = category_i + 1
    /\ UNCHANGED <<runVars, rerunVars, year_exists, category_dirs, dry_run,
                   cat_pc, dirs_before, returned, mkdir_failures>>

\* not dry_run: mkdir succeeds
Mkdir ==
    /\ cat_pc = "loop"
    /\ category_i <= Len(CATEGORIES)
    /\ CATEGORIES[category_i] \notin category_dirs
    /\ ~dry_run
    /\ category_dirs' = category_dirs \cup {CATEGORIES[category_i]}
    /\ year_stats' = [year_stats EXCEPT !.created = @ + 1]
    /\ category_i' = category_i + 1
    /\ UNCHANGED <<runVars, rerunVars, year_exists, dry_run, cat_pc,
                   dirs_before, returned, mkdir_failures>>

\* not dry_run: mkdir raises, the handler counts the category as skipped
MkdirFails ==
    /\ cat_pc = "loop"
    /\ category_i <= Len(CATEGORIES)
    /\ CATEGORIES[category_i] \notin category_dirs
    /\ ~dry_run
    /\ mkdir_failures < MaxMkdirFailures
    /\ mkdir_failures' = mkdir_failures + 1
    /\ year_stats' = [year_stats EXCEPT !.skipped = @ + 1]
    /\ category_i' = category_i + 1
    /\ UNCHANGED <<runVars, rerunVars, year_exists, category_dirs, dry_run,
                   cat_pc, dirs_before, returned>>

\* variant: the dry run makes the directory
DryRunMkdir ==
    /\ cat_pc = "loop"
    /\ category_i <= Len(CATEGORIES)
    /\ CATEGORIES[category_i] \notin category_dirs
    /\ dry_run
    /\ category_dirs' = category_dirs \cup {CATEGORIES[category_i]}
    /\ year_stats' = [year_stats EXCEPT !.created = @ + 1]
    /\ category_i' = category_i + 1
    /\ UNCHANGED <<runVars, rerunVars, year_exists, dry_run, cat_pc,
                   dirs_before, returned, mkdir_failures>>

\* dry_run: the category is counted as created and nothing is made
DryRun ==
    /\ cat_pc = "loop"
    /\ category_i <= Len(CATEGORIES)
    /\ CATEGORIES[category_i] \notin category_dirs
    /\ dry_run
    /\ year_stats' = [year_stats EXCEPT !.created = @ + 1]
    /\ category_i' = category_i + 1
    /\ UNCHANGED <<runVars, rerunVars, year_exists, category_dirs, dry_run,
                   cat_pc, dirs_before, returned, mkdir_failures>>

\* return stats
ReturnStats ==
    /\ cat_pc = "loop"
    /\ category_i > Len(CATEGORIES)
    /\ returned' = Append(returned, Returned(year_stats))
    /\ cat_pc' = "returned"
    /\ UNCHANGED <<runVars, rerunVars, year_exists, category_dirs, dry_run,
                   category_i, year_stats, dirs_before, mkdir_failures>>

\* the script is run again and main calls the function for the same year,
\* in the mode the user chooses
CallAgain ==
    /\ cat_pc = "returned"
    /\ Len(returned) < 2
    /\ dry_run' \in BOOLEAN
    /\ cat_pc' = "call"
    /\ UNCHANGED <<runVars, rerunVars, year_exists, category_dirs,
                   category_i, year_stats, dirs_before, returned,
                   mkdir_failures>>

NextCategories ==
    \/ CreateCategoriesForYear
    \/ CategoryExists
    \/ Mkdir
    \/ MkdirFails
    \/ DryRun
    \/ ReturnStats
    \/ CallAgain

SpecCategories == InitCategories /\ [][NextCategories]_vars

----------------------------------------------------------------------------
(* Properties *)

Range(s) == {s[i] : i \in 1..Len(s)}

NoDuplicates(s) == \A i, j \in 1..Len(s) : s[i] = s[j] => i = j

\* the number of the first n calls of process_file that returned ok
CountCalls(n, ok) == Cardinality({i \in 1..n : calls[i].ok = ok})

\* C1 as stated: a run that ends by the safety-limit break ends with a
\* success count between cap - batch size + 1 and cap.
C1_CappedAtMostCap ==
    (pc = "done" /\ capped) =>
        /\ MAX_FILES_PER_RUN - BATCH_SIZE + 1 <= stats.success
        /\ stats.success <= MAX_FILES_PER_RUN

\* C1 as amended: a run that ends by the safety-limit break ends with a
\* success count between cap and cap + batch size - 1.
C1_CappedFinalRange ==
    (pc = "done" /\ capped) =>
        /\ MAX_FILES_PER_RUN <= stats.success
        /\ stats.success <= MAX_FILES_PER_RUN + BATCH_SIZE - 1

C1_Witness ==
    /\ pc = "done"
    /\ capped
    /\ BATCH_SIZE >= 2
    /\ stats.success = MAX_FILES_PER_RUN + BATCH_SIZE - 1

\* C2: the cap is tested only when a whole number of full batches has been
\* flushed and the batch is empty, never inside a batch; once the break is
\* taken every pulled candidate has been processed and the success count is
\* one of cap .. cap + batch size - 1.
C2_CapTestedAtBatchBoundary ==
    /\ pc = "capcheck" =>
          /\ batch = <<>>
          /\ batch_count >= 1
          /\ flushes[Len(flushes)] = [kind |-> "full", size |-> BATCH_SIZE]
          /\ Len(calls) = batch_count * BATCH_SIZE
    /\ capped =>
          /\ Len(calls) = batch_count * BATCH_SIZE
          /\ Len(calls) = Len(pulled)
          /\ stats.success \in
                MAX_FILES_PER_RUN..(MAX_FILES_PER_RUN + BATCH_SIZE - 1)

C2_Witness ==
    /\ capped
    /\ BATCH_SIZE = 2
    /\ batch_count = 2
    /\ stats.errors = 1
    /\ stats.success = MAX_FILES_PER_RUN

\* C3: a step that resumes the generator starts from a state with
\* success < cap, and from a state with success >= cap no step resumes it.
C3_NoPullOnceCapReached ==
    [][ /\ (pc = "pull" /\ pc' # "interrupted") =>
              stats.success < MAX_FILES_PER_RUN
        /\ stats.success >= MAX_FILES_PER_RUN =>
              (pulled' = pulled /\ gen' = gen /\ genState' = genState) ]_vars

\* the run ended by the break while the generator had a candidate to give
C3_Witness ==
    /\ pc = "done"
    /\ capped
    /\ genState = "running"
    /\ Resume(fs, max_depth, gen).item # None

\* C4: success + errors is the number of process_file calls made so far,
\* which is at most the number of candidates pulled so far, and equal to it
\* when the run has returned.
C4_CountsMatchCalls ==
    /\ stats.success + stats.errors = Len(calls)
    /\ stats.success = CountCalls(Len(calls), TRUE)
    /\ stats.errors = CountCalls(Len(calls), FALSE)
    /\ Len(calls) <= Len(pulled)
    /\ pc = "done" => Len(calls) = Len(pulled)

\* an interrupt between two batches, with a candidate pulled and not processed
C4_Witness ==
    /\ pc = "interrupted"
    /\ batch_count >= 1
    /\ stats.errors >= 1
    /\ stats.success >= 1
    /\ Len(calls) < Len(pulled)

\* C5: the batch never holds more than BATCH_SIZE candidates; the pull loop
\* flushes exactly when it holds BATCH_SIZE (it never pulls with a full
\* batch, and never flushes a shorter one); the only shorter flush is the
\* one tail flush, the last flush of the run, after the generator is
\* exhausted.
C5_BatchBounded ==
    /\ Len(batch) <= BATCH_SIZE
    /\ pc = "pull" => Len(batch) < BATCH_SIZE
    /\ pc \in {"flush", "clear"} => Len(batch) = BATCH_SIZE
    /\ \A i \in 1..Len(flushes) :
          /\ flushes[i].kind = "full" => flushes[i].size = BATCH_SIZE
          /\ flushes[i].kind = "tail" =>
                /\ flushes[i].size \in 1..(BATCH_SIZE - 1)
                /\ i = Len(flushes)
                /\ genState = "exhausted"
                /\ pc \in {"final", "done", "interrupted"}

C5_Witness ==
    /\ pc = "done"
    /\ BATCH_SIZE = 3
    /\ Len(flushes) = 2
    /\ flushes[1] = [kind |-> "full", size |-> 3]
    /\ flushes[2] = [kind |-> "tail", size |-> 2]

----------------------------------------------------------------------------
(* What the traversal is expected to yield, stated on the tree itself: on  *)
(* the shapes the names were built with, the skeleton's parent relation    *)
(* and the listings, not on the walker's own tests.                        *)

RECURSIVE SkeletonDepth(_)
SkeletonDepth(d) == IF d = "root" THEN 0 ELSE 1 + SkeletonDepth(SkeletonParent(d))

\* the directories on the path from the root to n, the root included
RECURSIVE Ancestors(_)
Ancestors(n) ==
    IF n = "root" THEN {}
    ELSE {SkeletonParent(n)} \cup Ancestors(SkeletonParent(n))

Present(n) == n \in Range(fs[SkeletonParent(n)].entries)

\* a regular file, visible on a visible path below the root, directly in a
\* directory of depth <= max_depth, extension allowed, no date prefix
Matching(f) ==
    /\ Present(f)
    /\ fs[f].shape \in {"plain", "upper", "neardate", "fakedate"}
    /\ \A d \in Ancestors(f) \ {"root"} : fs[d].shape # "hidden"
    /\ SkeletonDepth(SkeletonParent(f)) <= max_depth

MatchingFiles == {f \in Files : Matching(f)}

NoErrors == \A n \in Nodes : fs[n].failAt = -1 /\ fs[n].statExc = ""

\* enumerating d raises: its listing fails, or inspecting one of its
\* visible entries does
Erroring(d) ==
    \/ fs[d].failAt # -1
    \/ \E e \in Range(fs[d].entries) : fs[e].shape # "hidden" /\ fs[e].statExc # ""

Position(d, n) == CHOOSE i \in 1..Len(fs[d].entries) : fs[d].entries[i] = n

\* the enumeration of d gets as far as handling its entry n
ReachedIn(d, n) ==
    LET p == Position(d, n)
    IN  /\ fs[d].failAt = -1 \/ fs[d].failAt >= p
        /\ \A i \in 1..p :
              LET e == fs[d].entries[i]
              IN  fs[e].shape = "hidden" \/ fs[e].statExc = ""

RECURSIVE Reached(_)
Reached(n) ==
    n = "root" \/ (ReachedIn(SkeletonParent(n), n) /\ Reached(SkeletonParent(n)))

\* the matching files no enumeration error cuts off
ReachedFiles == {f \in MatchingFiles : Reached(f)}

\* C6: on a tree without enumeration errors the generator yields no file
\* twice and only matching files, and once exhausted it has yielded every
\* matching file; when there is none the run flushes no batch.
C6_YieldsExactlyMatching ==
    NoErrors =>
        /\ NoDuplicates(pulled)
        /\ Range(pulled) \subseteq MatchingFiles
        /\ genState = "exhausted" => Range(pulled) = MatchingFiles
        /\ (pc = "done" /\ MatchingFiles = {}) =>
              (pulled = <<>> /\ flushes = <<>> /\ calls = <<>>)

\* depth limit 2: a hidden directory's file, a dated file and the files
\* below depth 2 are left out, an upper-case extension is taken
C6_Witness ==
    /\ NoErrors
    /\ genState = "exhausted"
    /\ max_depth = 2
    /\ fs["f1"].shape = "formatted"
    /\ fs["g0"].shape = "upper"
    /\ pulled = <<"f0", "f2", "g0">>

\* C7: no enumeration error leaves the generator; what it yields is never
\* more than the matching files that the enumeration reaches before an
\* error; once exhausted it has yielded all of those, hence every matching
\* file that has no erroring directory above it.
C7_ErrorsContained ==
    /\ genState # "raised"
    /\ pc # "crashed"
    /\ NoDuplicates(pulled)
    /\ Range(pulled) \subseteq ReachedFiles
    /\ genState = "exhausted" =>
          /\ Range(pulled) = ReachedFiles
          /\ \A f \in MatchingFiles :
                (\A d \in Ancestors(f) : ~Erroring(d)) => f \in Range(pulled)

\* the listing of A fails with an OSError after its first entry: f1 was
\* yielded, the rest of A's subtree is not, the sibling g0 after A is
C7_Witness ==
    /\ genState = "exhausted"
    /\ max_depth = DefaultMaxDepth
    /\ fs["A"].failAt = 1
    /\ fs["A"].failExc = "OSError"
    /\ fs["g0"].statExc = ""
    /\ pulled = <<"f0", "f1", "g0">>
    /\ {"f2", "f3"} \subseteq MatchingFiles

\* C8: a run that returns without the break has processed the candidates
\* the traversal yields, each once and in the order pulled; success and
\* errors count the calls that returned true and false; the flushes are
\* ceil(n / BATCH_SIZE) many, all full but a shorter last one.
C8_UncappedRunProcessesAll ==
    (pc = "done" /\ ~capped) =>
        LET n == Cardinality(ReachedFiles)
        IN  /\ genState = "exhausted"
            /\ Len(pulled) = n
            /\ [i \in 1..Len(calls) |-> calls[i].file] = pulled
            /\ stats.success = CountCalls(n, TRUE)
            /\ stats.errors = CountCalls(n, FALSE)
            /\ stats.success + stats.errors = n
            /\ Len(flushes) = (n + BATCH_SIZE - 1) \div BATCH_SIZE
            /\ \A i \in 1..Len(flushes) :
                  flushes[i].size =
                      IF i * BATCH_SIZE <= n THEN BATCH_SIZE ELSE n % BATCH_SIZE

C8_Witness ==
    /\ pc = "done"
    /\ ~capped
    /\ BATCH_SIZE = 2
    /\ Len(pulled) = 5
    /\ stats = [success |-> 3, errors |-> 2]
    /\ Len(flushes) = 3

\* C9: a process_file call that returns false adds one to errors, leaves
\* success alone and leaves the run in the same flush loop; a run that
\* returns with success < cap, whatever its errors, was not cut by the cap
\* and has processed every candidate the traversal yields.
C9_FailuresCountedRunContinues ==
    /\ [][ (calls' # calls /\ ~calls'[Len(calls')].ok) =>
              /\ stats'.errors = stats.errors + 1
              /\ stats'.success = stats.success
              /\ pc' = pc
              /\ batch' = batch ]_vars
    /\ [] ( (pc = "done" /\ stats.success < MAX_FILES_PER_RUN) =>
              /\ ~capped
              /\ Len(calls) = Cardinality(ReachedFiles)
              /\ Range(pulled) = ReachedFiles )

\* every item fails, the cap is 1, five candidates are all processed
C9_Witness ==
    /\ pc = "done"
    /\ MAX_FILES_PER_RUN = 1
    /\ stats = [success |-> 0, errors |-> 5]
    /\ batch_count >= 2

\* C10 as stated: when the run returns, every flush, the tail flush
\* included, has emitted its progress line.
C10_ProgressPerFlush ==
    pc = "done" => Len(progress) = Len(flushes)

\* C10 as amended: every full-batch flush, and no other, emits a progress
\* line; the i-th line carries i and the success and error counts of the
\* first i * BATCH_SIZE calls; the tail flush emits none and leaves
\* batch_count alone.
C10_ProgressPerFullBatch ==
    /\ Len(progress) = batch_count
    /\ Len(progress) = Cardinality({i \in 1..Len(flushes) : flushes[i].kind = "full"})
    /\ \A i \in 1..Len(progress) :
          /\ progress[i].batch = i
          /\ progress[i].success = CountCalls(i * BATCH_SIZE, TRUE)
          /\ progress[i].errors = CountCalls(i * BATCH_SIZE, FALSE)

C10_Witness ==
    /\ pc = "done"
    /\ Len(flushes) = 3
    /\ flushes[3].kind = "tail"
    /\ Len(progress) = 2
    /\ progress[2] = [batch |-> 2, success |-> 3, errors |-> 1]
    /\ stats = [success |-> 3, errors |-> 2]

\* C12: when the root path does not exist, main returns at its test: the
\* run is refused, the generator is never created or resumed, no candidate
\* is pulled, process_file is never called, no batch is flushed and no
\* statistics are returned.
C12_MissingRootRefused ==
    ~rootExists =>
        /\ pc \in {"main", "refused"}
        /\ genState = "unstarted"
        /\ gen = <<>>
        /\ pulled = <<>>
        /\ calls = <<>>
        /\ flushes = <<>>
        /\ progress = <<>>
        /\ stats = [success |-> 0, errors |-> 0]

C12_Witness ==
    /\ ~rootExists
    /\ pc = "refused"
    /\ fs = BaseTree

\* C13: every run ends: main refuses a missing root, and a run that is not
\* interrupted from outside returns its statistics.  A run that returns
\* while the generator still has entries to deliver left the loop at the
\* limit test after a full batch, with success >= MAX_FILES_PER_RUN and an
\* empty batch, and no flush of remaining files follows; the loop is left
\* only on exhaustion or at that test.
C13_LoopLeftAtCapOrExhaustion ==
    (pc' = "tail" /\ pc # "tail") =>
        \/ pc = "pull" /\ genState' = "exhausted" /\ ~capped'
        \/ /\ pc = "capcheck"
           /\ stats.success >= MAX_FILES_PER_RUN
           /\ batch = <<>>
           /\ capped'
           /\ flushes # <<>>
           /\ flushes[Len(flushes)].kind = "full"

C13_EarlyStopIsCap ==
    (pc = "done" /\ genState # "exhausted") =>
        /\ capped
        /\ stats.success >= MAX_FILES_PER_RUN
        /\ batch = <<>>
        /\ flushes # <<>>
        /\ \A k \in 1..Len(flushes) : flushes[k].kind = "full"

C13_RunTerminates ==
    /\ <>(pc \in {"done", "refused", "interrupted"})
    /\ [](pc # "crashed")
    /\ [](pc = "refused" => ~rootExists)
    /\ [][C13_LoopLeftAtCapOrExhaustion]_vars
    /\ []C13_EarlyStopIsCap

C13_Witness ==
    /\ pc = "done"
    /\ genState = "running"
    /\ capped
    /\ Len(pulled) < Cardinality(MatchingFiles)

\* C14: the batch is empty before the first pull and after every flush,
\* and while it is being filled it holds exactly the candidates pulled and
\* not yet processed; so process_file receives the candidates in the order
\* they were pulled, each at most once.
C14_FillStartsEmpty ==
    /\ (pc \in {"main", "pull"} /\ pulled = <<>>) => batch = <<>>
    /\ pc \in {"pause", "capcheck", "final", "done"} => batch = <<>>
    /\ pc = "pull" =>
          /\ batch = SubSeq(pulled, Len(calls) + 1, Len(pulled))
          /\ Len(batch) < BATCH_SIZE
    /\ Len(calls) <= Len(pulled)
    /\ \A k \in 1..Len(calls) : calls[k].file = pulled[k]
    /\ \A j, k \in 1..Len(calls) : calls[j].file = calls[k].file => j = k

C14_Witness ==
    /\ pc = "pull"
    /\ batch_count >= 2
    /\ batch # <<>>
    /\ Len(calls) = batch_count * BATCH_SIZE
    /\ BATCH_SIZE >= 2

\* the number of full-batch flushes so far
FullFlushes == Cardinality({k \in 1..Len(flushes) : flushes[k].kind = "full"})

\* C15: the script sleeps once after every full-batch flush, when the batch
\* has been cleared and before the limit is tested, so also after the flush
\* whose limit test breaks; it does not sleep after the remaining files; at
\* the limit test and when the run returns the number of pauses is the
\* number of full-batch flushes.
C15_PauseStep ==
    pauses' # pauses =>
        /\ pauses' = pauses + 1
        /\ pc = "pause"
        /\ pc' = "capcheck"
        /\ batch = <<>>
        /\ flushes # <<>>
        /\ flushes[Len(flushes)].kind = "full"
        /\ pauses' = FullFlushes

C15_PauseCount ==
    /\ pc \in {"clear", "pause"} => pauses = FullFlushes - 1
    /\ pc \in {"main", "pull", "flush", "capcheck", "tail", "tailflush",
               "final", "done"} => pauses = FullFlushes
    /\ pc = "capcheck" => pauses = batch_count
    /\ capped => pauses = batch_count
    /\ (flushes # <<>> /\ flushes[Len(flushes)].kind = "tail") =>
          pauses = FullFlushes

C15_PauseAfterEachFullFlush ==
    /\ [][C15_PauseStep]_vars
    /\ []C15_PauseCount

C15_Witness ==
    /\ pc = "done"
    /\ capped
    /\ pauses = 2
    /\ batch_count = 2

\* C16: the remaining files are all processed, with no test of the limit
\* among or after them, so a run that never took the break can return with
\* success >= MAX_FILES_PER_RUN; the success count still never exceeds
\* MAX_FILES_PER_RUN + BATCH_SIZE - 1, in any run.
C16_TailStep ==
    pc = "tailflush" =>
        /\ capped' = capped
        /\ pc' \in {"tailflush", "final", "interrupted"}
        /\ (pc' = "tailflush" /\ idx <= Len(batch)) =>
              /\ Len(calls') = Len(calls) + 1
              /\ calls'[Len(calls')].file = batch[idx]
        /\ pc' = "final" => Len(calls) = Len(pulled)

C16_SuccessBound ==
    /\ stats.success <= MAX_FILES_PER_RUN + BATCH_SIZE - 1
    /\ (flushes # <<>> /\ flushes[Len(flushes)].kind = "tail") =>
          /\ ~capped
          /\ Len(calls) = Len(pulled)
          /\ flushes[Len(flushes)].size = Len(pulled) - batch_count * BATCH_SIZE

C16_TailUncheckedSuccessBounded ==
    /\ [][C16_TailStep]_vars
    /\ []C16_SuccessBound

C16_Witness ==
    /\ pc = "done"
    /\ ~capped
    /\ flushes # <<>>
    /\ flushes[Len(flushes)].kind = "tail"
    /\ stats.success > MAX_FILES_PER_RUN

\* C11 as stated: a second run over the same tree, with the same
\* configuration and the same process_file, returns the statistics of the
\* first run, whatever the order of the listings and capped or not.
C11_RerunSameStatistics ==
    (pc = "done" /\ first # <<>>) => stats = first[1].stats

\* no listing of the tree is cut part-way: no listing fails after it has
\* delivered entries, and no entry fails to be inspected
NoPartialListing ==
    \A n \in DOMAIN fs : fs[n].failAt \in {-1, 0} /\ fs[n].statExc = ""

\* C11 as amended: the second run returns the statistics of the first run
\* when it is given every listing in the same order, capped or not; when
\* the order differs, it does so if neither run took the safety-limit break
\* and no listing is cut part-way by an error.
C11_RerunSameStatisticsSameOrder ==
    (pc = "done" /\ first # <<>>) =>
        /\ fs = first[1].fs =>
              (stats = first[1].stats /\ capped = first[1].capped)
        /\ (~capped /\ ~first[1].capped /\ NoPartialListing) =>
              stats = first[1].stats

C11_Witness ==
    /\ pc = "done"
    /\ first # <<>>
    /\ fs # first[1].fs
    /\ ~capped
    /\ ~first[1].capped
    /\ NoPartialListing
    /\ stats.errors = 1
    /\ batch_count >= 1

\* C17: a dry-run call makes no directory: the category directories after
\* it are those before it, and it returns every missing category as
\* created, every present one as existing and none as skipped; a call for
\* a year directory that does not exist makes nothing, in either mode, and
\* returns zeros.  No step of a dry run, and no step for a missing year,
\* changes the directories, and no call makes the year directory.
C17_DryRunStep ==
    /\ (dry_run /\ cat_pc = "loop") => category_dirs' = category_dirs
    /\ ~year_exists => category_dirs' = category_dirs
    /\ year_exists' = year_exists

C17_DryRunReturns ==
    /\ ~year_exists => category_dirs = {}
    /\ \A k \in 1..Len(returned) :
          LET r == returned[k]
          IN  /\ (r.dry_run /\ r.year_exists) =>
                    /\ r.after = r.before
                    /\ r.stats.created = Cardinality(Categories \ r.before)
                    /\ r.stats.existing = Cardinality(Categories \cap r.before)
                    /\ r.stats.skipped = 0
              /\ ~r.year_exists =>
                    /\ r.after = r.before
                    /\ r.stats = [created |-> 0, existing |-> 0, skipped |-> 0]

C17_DryRunChangesNothing ==
    /\ [][C17_DryRunStep]_vars
    /\ []C17_DryRunReturns

C17_Witness ==
    /\ cat_pc = "returned"
    /\ Len(returned) = 1
    /\ returned[1].dry_run
    /\ returned[1].year_exists
    /\ returned[1].stats.created = 8
    /\ returned[1].stats.existing = 3
    /\ Cardinality(category_dirs) = 3

\* C18: a real call for an existing year returns created + existing +
\* skipped = 11, the number of categories: created counts the directories
\* it made, existing those it found, skipped those whose mkdir raised.
\* After a real call in which no mkdir raised all 11 category directories
\* exist, and a second real call makes nothing and returns created = 0,
\* existing = 11, skipped = 0.
C18_RealRunCountsAllAndIsIdempotent ==
    /\ Len(CATEGORIES) = 11
    /\ Cardinality(Categories) = 11
    /\ \A k \in 1..Len(returned) :
          LET r == returned[k]
          IN  (r.year_exists /\ ~r.dry_run) =>
                  /\ r.stats.created + r.stats.existing + r.stats.skipped = 11
                  /\ r.stats.created = Cardinality(r.after \ r.before)
                  /\ r.stats.existing = Cardinality(r.before)
                  /\ r.stats.skipped = Cardinality(Categories \ r.after)
                  /\ r.stats.skipped = 0 => r.after = Categories
    /\ ( /\ Len(returned) = 2
         /\ returned[1].year_exists
         /\ ~returned[1].dry_run
         /\ ~returned[2].dry_run
         /\ returned[1].stats.skipped = 0 ) =>
            /\ returned[2].before = Categories
            /\ returned[2].after = Categories
            /\ returned[2].stats = [created |-> 0, existing |-> 11, skipped |-> 0]

C18_Witness ==
    /\ Len(returned) = 2
    /\ returned[1].year_exists
    /\ ~returned[1].dry_run
    /\ ~returned[2].dry_run
    /\ returned[1].stats = [created |-> 11, existing |-> 0, skipped |-> 0]
    /\ returned[2].stats.existing = 11

====
